---------------------------- MODULE Spec2Model ----------------------------
(***************************************************************************)
(* Model of temp_fix_quote.py: a straight-line script that reads one file  *)
(* as UTF-8 text, replaces every occurrence of one literal by another and  *)
(* writes the text back to the same path.                                  *)
(*                                                                         *)
(* The file on disk is a sequence of abstract characters:                  *)
(*   "Q"   the double quote U+0022 both literals begin and end with,       *)
(*   "A"   the text of old_text between its two quotes (it holds no "Q"),  *)
(*   "B"   text of new_text between its two quotes (it holds no "Q"),      *)
(*   "X"   any other character,                                            *)
(*   "CR", "LF"   carriage return and line feed,                           *)
(*   "BAD" a byte sequence that is not valid UTF-8.                        *)
(* old_text is Q A Q and new_text is Q B B Q: as in the source, each       *)
(* literal begins and ends with the quote, has no quote and no line        *)
(* terminator inside, new_text is the longer one, and neither is part of   *)
(* the other.                                                              *)
(***************************************************************************)
EXTENDS Naturals, Sequences, FiniteSets

VARIABLES
    exists,     \* whether the target path names a file
    disk,       \* the file's bytes
    pc,         \* position of the script
    content,    \* the script's variable `content`
    handles,    \* handles currently open: subset of {"r", "w"}
    log,        \* file operations performed by the current run, in order
    stdout,     \* lines printed by the current run
    err,        \* the unhandled error that ended the run, or "none"
    run,        \* number of the current run (1 = first invocation)
    hist,       \* hist[k] = the file's bytes when run k started
    snap,       \* the bytes the current run's f.read() consumed
    ext         \* contents another process wrote during the current run

vars == <<exists, disk, pc, content, handles, log, stdout, err, run, hist, snap, ext>>

----------------------------------------------------------------------------
(* Bounds *)

MaxPieces == 3      \* initial contents are built from at most this many pieces
MaxRuns == 2        \* successive invocations of the script
MaxExt == 1         \* writes of another process per run

----------------------------------------------------------------------------
(* The literals *)

old_text == <<"Q", "A", "Q">>

new_text == <<"Q", "B", "B", "Q">>

message == "Replacement complete"

\* os.linesep of the platform the script is written for (POSIX shebang).
linesep == <<"LF">>

----------------------------------------------------------------------------
(* Text-mode I/O and str.replace *)

\* f.read() raises UnicodeDecodeError iff some byte sequence is invalid.
Decodable(bytes) == \A i \in 1..Len(bytes) : bytes[i] # "BAD"

\* f.read() with newline=None (the default): universal newlines, every
\* CR LF and every lone CR is returned as LF.
RECURSIVE Decode(_)
Decode(bytes) ==
    IF bytes = <<>> THEN <<>>
    ELSE IF bytes[1] = "CR"
         THEN IF Len(bytes) >= 2 /\ bytes[2] = "LF"
              THEN <<"LF">> \o Decode(SubSeq(bytes, 3, Len(bytes)))
              ELSE <<"LF">> \o Decode(Tail(bytes))
         ELSE <<bytes[1]>> \o Decode(Tail(bytes))

\* f.write() with newline=None: every LF is written as os.linesep.
RECURSIVE Encode(_)
Encode(text) ==
    IF text = <<>> THEN <<>>
    ELSE (IF text[1] = "LF" THEN linesep ELSE <<text[1]>>) \o Encode(Tail(text))

\* sub occurs in s at position i
OccursAt(s, sub, i) ==
    /\ i >= 1
    /\ i + Len(sub) - 1 <= Len(s)
    /\ SubSeq(s, i, i + Len(sub) - 1) = sub

\* str.find(sub, start): the lowest position >= start where sub occurs,
\* 0 when there is none (positions are 1-based).
Find(s, sub, start) ==
    LET hits == {i \in start..Len(s) : OccursAt(s, sub, i)}
    IN IF hits = {} THEN 0
       ELSE CHOOSE i \in hits : \A j \in hits : i <= j

RECURSIVE ReplaceFrom(_, _, _, _)
ReplaceFrom(s, old, new, start) ==
    LET i == Find(s, old, start)
    IN IF i = 0 THEN SubSeq(s, start, Len(s))
       ELSE SubSeq(s, start, i - 1) \o new \o ReplaceFrom(s, old, new, i + Len(old))

\* Mutant: replace(old, new, 1), only the first occurrence is replaced.
ReplaceFirst(s, old, new) ==
    LET i == Find(s, old, 1)
    IN IF i = 0 THEN s
       ELSE SubSeq(s, 1, i - 1) \o new \o SubSeq(s, i + Len(old), Len(s))

\* Mutant: the two arguments in the wrong order.
ReplaceSwapped(s, old, new) == ReplaceFrom(s, new, old, 1)

\* str.replace(old, new) with old non-empty.
Replace(s, old, new) == ReplaceFrom(s, old, new, 1)

\* the bytes of s before position k + 1
Prefix(s, k) == SubSeq(s, 1, k)

\* the file after `bytes` were written at offset 0: bytes beyond them stay
WriteAt(file, bytes) == bytes \o SubSeq(file, Len(bytes) + 1, Len(file))

----------------------------------------------------------------------------
(* Initial states *)

Piece == {<<"Q">>, <<"A">>, <<"X">>, <<"CR">>, <<"LF">>, <<"BAD">>, old_text, new_text}

RECURSIVE Flatten(_)
Flatten(ps) == IF ps = <<>> THEN <<>> ELSE Head(ps) \o Flatten(Tail(ps))

Contents == {Flatten(ps) : ps \in UNION {[1..n -> Piece] : n \in 0..MaxPieces}}

\* what another process may write
ExtContents == {<<>>, <<"X">>, old_text, <<"X">> \o old_text}

Init ==
    /\ exists \in BOOLEAN
    /\ disk \in (IF exists THEN Contents ELSE {<<>>})
    /\ pc = "start"
    /\ content = <<>>
    /\ handles = {}
    /\ log = <<>>
    /\ stdout = <<>>
    /\ err = "none"
    /\ run = 1
    /\ hist = <<disk>>
    /\ snap = <<>>
    /\ ext = <<>>

----------------------------------------------------------------------------
(* The script, statement by statement *)

\* Mutant: the file is opened in a mode that creates it when missing ('a+').
ReadOpenCreating ==
    /\ pc = "start"
    /\ exists' = TRUE
    /\ handles' = handles \cup {"r"}
    /\ log' = Append(log, "ropen")
    /\ pc' = "rd_open"
    /\ UNCHANGED <<disk, content, stdout, err, run, hist, snap, ext>>

\* line 4: open(path, 'r') succeeds
ReadOpen ==
    /\ pc = "start"
    /\ exists
    /\ handles' = handles \cup {"r"}
    /\ log' = Append(log, "ropen")
    /\ pc' = "rd_open"
    /\ UNCHANGED <<exists, disk, content, stdout, err, run, hist, snap, ext>>

\* line 4: open(path, 'r') raises; nothing was opened
ReadOpenFail ==
    /\ pc = "start"
    /\ err' \in (IF exists THEN {"PermissionError"} ELSE {"FileNotFoundError"})
    /\ pc' = "failed"
    /\ UNCHANGED <<exists, disk, content, handles, log, stdout, run, hist, snap, ext>>

\* line 5: content = f.read()
Read ==
    /\ pc = "rd_open"
    /\ Decodable(disk)
    /\ content' = Decode(disk)
    /\ snap' = disk
    /\ log' = Append(log, "read")
    /\ pc' = "rd_read"
    /\ UNCHANGED <<exists, disk, handles, stdout, err, run, hist, ext>>

\* Mutant: no with block, the handle stays open when read() raises.
ReadFailLeak ==
    /\ pc = "rd_open"
    /\ ~Decodable(disk)
    /\ err' = "UnicodeDecodeError"
    /\ pc' = "failed"
    /\ UNCHANGED <<exists, disk, content, handles, log, stdout, run, hist, snap, ext>>

\* Mutant: the decoding error is swallowed (errors='ignore' around an empty
\* result) and the script goes on with an empty text.
ReadFailSwallowed ==
    /\ pc = "rd_open"
    /\ ~Decodable(disk)
    /\ content' = <<>>
    /\ handles' = handles \ {"r"}
    /\ log' = Append(log, "rclose")
    /\ pc' = "rd_closed"
    /\ UNCHANGED <<exists, disk, stdout, err, run, hist, snap, ext>>

\* line 5: f.read() raises UnicodeDecodeError; the with block of line 4
\* closes the handle while the error propagates
ReadFail ==
    /\ pc = "rd_open"
    /\ ~Decodable(disk)
    /\ err' = "UnicodeDecodeError"
    /\ handles' = handles \ {"r"}
    /\ log' = Append(log, "rclose")
    /\ pc' = "failed"
    /\ UNCHANGED <<exists, disk, content, stdout, run, hist, snap, ext>>

\* end of the with block of lines 4-5
CloseRead ==
    /\ pc = "rd_read"
    /\ handles' = handles \ {"r"}
    /\ log' = Append(log, "rclose")
    /\ pc' = "rd_closed"
    /\ UNCHANGED <<exists, disk, content, stdout, err, run, hist, snap, ext>>

\* Mutant: the text is read from the file again when it is replaced.
DoReplaceReread ==
    /\ pc = "rd_closed"
    /\ content' = Replace(Decode(disk), old_text, new_text)
    /\ pc' = "replaced"
    /\ UNCHANGED <<exists, disk, handles, log, stdout, err, run, hist, snap, ext>>

\* lines 8-12: content = content.replace(old_text, new_text)
DoReplace ==
    /\ pc = "rd_closed"
    /\ content' = Replace(content, old_text, new_text)
    /\ pc' = "replaced"
    /\ UNCHANGED <<exists, disk, handles, log, stdout, err, run, hist, snap, ext>>

\* Mutant: the file is opened for update without truncation ('r+').
WriteOpenNoTruncate ==
    /\ pc = "replaced"
    /\ exists
    /\ handles' = handles \cup {"w"}
    /\ log' = Append(log, "wopen")
    /\ pc' = "wr_open"
    /\ UNCHANGED <<exists, disk, content, stdout, err, run, hist, snap, ext>>

\* line 14: open(path, 'w') succeeds: the file is created if missing and
\* truncated to length zero
WriteOpen ==
    /\ pc = "replaced"
    /\ exists' = TRUE
    /\ disk' = <<>>
    /\ handles' = handles \cup {"w"}
    /\ log' = Append(log, "wopen")
    /\ pc' = "wr_open"
    /\ UNCHANGED <<content, stdout, err, run, hist, snap, ext>>

\* line 14: open(path, 'w') raises; the file is not touched
WriteOpenFail ==
    /\ pc = "replaced"
    /\ err' = "PermissionError"
    /\ pc' = "failed"
    /\ UNCHANGED <<exists, disk, content, handles, log, stdout, run, hist, snap, ext>>

\* line 15: f.write(content): the encoded text goes to the handle's buffer;
\* how much of it has reached the file when write() returns depends on the
\* buffer size
Write ==
    /\ pc = "wr_open"
    /\ \E k \in 0..Len(Encode(content)) :
          disk' = WriteAt(disk, Prefix(Encode(content), k))
    /\ log' = Append(log, "write")
    /\ pc' = "wr_written"
    /\ UNCHANGED <<exists, content, handles, stdout, err, run, hist, snap, ext>>

\* lines 14-15: writing or flushing raises OSError after some more of the
\* bytes reached the file; the with block of line 14 closes the handle
WriteFail ==
    /\ pc \in {"wr_open", "wr_written"}
    /\ \E k \in Len(disk)..Len(Encode(content)) :
          disk' = WriteAt(disk, Prefix(Encode(content), k))
    /\ err' = "OSError"
    /\ handles' = handles \ {"w"}
    /\ log' = Append(log, "wclose")
    /\ pc' = "failed"
    /\ UNCHANGED <<exists, content, stdout, run, hist, snap, ext>>

\* end of the with block of lines 14-15: the buffer is flushed and the
\* handle closed
CloseWrite ==
    /\ pc = "wr_written"
    /\ disk' = WriteAt(disk, Encode(content))
    /\ handles' = handles \ {"w"}
    /\ log' = Append(log, "wclose")
    /\ pc' = "wr_closed"
    /\ UNCHANGED <<exists, content, stdout, err, run, hist, snap, ext>>

\* Mutant: the print statement is indented into the with block.
ConfirmInsideWith ==
    /\ pc = "wr_written"
    /\ stdout = <<>>
    /\ stdout' = Append(stdout, message)
    /\ UNCHANGED <<exists, disk, pc, content, handles, log, err, run, hist, snap, ext>>

\* line 17: print("Replacement complete")
Confirm ==
    /\ pc = "wr_closed"
    /\ stdout' = Append(stdout, message)
    /\ pc' = "done"
    /\ UNCHANGED <<exists, disk, content, handles, log, err, run, hist, snap, ext>>

Running == {"start", "rd_open", "rd_read", "rd_closed", "replaced",
            "wr_open", "wr_written", "wr_closed"}

\* The process is killed (or the machine stops) at any point: the file
\* keeps what had reached it, the operating system releases the handles.
Crash ==
    /\ pc \in Running
    /\ handles' = {}
    /\ pc' = "crashed"
    /\ UNCHANGED <<exists, disk, content, log, stdout, err, run, hist, snap, ext>>

\* The script is invoked again after a successful run.
Rerun ==
    /\ pc = "done"
    /\ run < MaxRuns
    /\ run' = run + 1
    /\ hist' = Append(hist, disk)
    /\ pc' = "start"
    /\ content' = <<>>
    /\ log' = <<>>
    /\ stdout' = <<>>
    /\ snap' = <<>>
    /\ ext' = <<>>
    /\ UNCHANGED <<exists, disk, handles, err>>

\* Another process rewrites the file after the script's read has completed
\* and before its open for writing (nothing in the script locks the file).
ExtWrite ==
    /\ pc \in {"rd_closed", "replaced"}
    /\ Len(ext) < MaxExt
    /\ \E c \in ExtContents \ {disk} :
          /\ disk' = c
          /\ ext' = Append(ext, c)
    /\ UNCHANGED <<exists, pc, content, handles, log, stdout, err, run, hist, snap>>

Next ==
    \/ ReadOpen
    \/ ReadOpenFail
    \/ Read
    \/ ReadFail
    \/ CloseRead
    \/ DoReplace
    \/ WriteOpen
    \/ WriteOpenFail
    \/ Write
    \/ WriteFail
    \/ CloseWrite
    \/ Confirm
    \/ Crash
    \/ Rerun

Spec == Init /\ [][Next]_vars

NextConc == Next \/ ExtWrite

SpecConc == Init /\ [][NextConc]_vars

----------------------------------------------------------------------------
(* Vocabulary of the properties *)

\* the file's bytes when the current run started
Original == hist[run]

InLog(e) == \E i \in 1..Len(log) : log[i] = e

IsPrefix(p, s) == Len(p) <= Len(s) /\ SubSeq(s, 1, Len(p)) = p

\* positions where old_text occurs in s
Occurrences(s) == {i \in 1..Len(s) : OccursAt(s, old_text, i)}

\* two occurrences of old_text in s share a character
Overlapping(s) ==
    \E i, j \in Occurrences(s) : i < j /\ j < i + Len(old_text)

\* The greedy leftmost scan, one character at a time: at an occurrence of
\* old_text emit new_text and resume after the occurrence, elsewhere copy
\* the character.
RECURSIVE ScanFrom(_, _)
ScanFrom(s, i) ==
    IF i > Len(s) THEN <<>>
    ELSE IF OccursAt(s, old_text, i)
         THEN new_text \o ScanFrom(s, i + Len(old_text))
         ELSE <<s[i]>> \o ScanFrom(s, i + 1)

ScanReplace(s) == ScanFrom(s, 1)

\* the occurrences the greedy scan of s replaces
RECURSIVE MatchedFrom(_, _)
MatchedFrom(s, i) ==
    IF i > Len(s) THEN {}
    ELSE IF OccursAt(s, old_text, i)
         THEN {i} \cup MatchedFrom(s, i + Len(old_text))
         ELSE MatchedFrom(s, i + 1)

\* s with the single occurrence of old_text at i replaced
ReplaceOneAt(s, i) ==
    SubSeq(s, 1, i - 1) \o new_text \o SubSeq(s, i + Len(old_text), Len(s))

Canonical == <<"ropen", "read", "rclose", "wopen", "write", "wclose">>

----------------------------------------------------------------------------
(* C1 - C4: what a successful run leaves in the file *)

\* C1: after a successful run the file equals the greedy left-to-right
\* scan of its original content, every occurrence of old_text replaced by
\* new_text and every other character preserved in order.
C1_FileIsScanOfOriginal ==
    pc = "done" => disk = ScanReplace(Original)

\* C2: a successful run on a file without any occurrence of old_text
\* leaves the file identical and prints the confirmation.
C2_AbsentIsNoOp ==
    (pc = "done" /\ Occurrences(Original) = {})
        => (disk = Original /\ stdout = <<message>>)

\* C3 as stated: for every initial content a second successful run is a
\* no-op, the file after it equals the file after the first run.
C3_SecondRunIsNoOp ==
    (run >= 2 /\ pc = "done") => disk = Original

\* C3 amended: when no two occurrences of old_text in the initial content
\* overlap, old_text no longer occurs after the first successful run and
\* every later successful run leaves the file as it found it.
C3_SecondRunIsNoOpWithoutOverlap ==
    (run >= 2 /\ ~Overlapping(hist[1]))
        => /\ Occurrences(Original) = {}
           /\ pc = "done" => disk = Original

C3_Witness ==
    /\ run = 2
    /\ pc = "done"
    /\ ~Overlapping(hist[1])
    /\ Cardinality(Occurrences(hist[1])) = 2
    /\ disk = hist[2]
    /\ hist[2] # hist[1]

\* C4 as stated: a successful run changes at most one location: the file
\* is either unchanged or differs in exactly one occurrence of old_text,
\* which became new_text.
C4_AtMostOneLocation ==
    pc = "done" =>
        \/ disk = Original
        \/ \E i \in Occurrences(Original) : disk = ReplaceOneAt(Original, i)

\* C4 amended: a successful run changes every occurrence of old_text the
\* greedy scan finds, however many, into new_text; besides that only line
\* terminators differ, each CR LF and lone CR being written back as the
\* platform's line separator.
C4_EveryMatchedLocation ==
    pc = "done" => disk = Encode(ScanReplace(Decode(Original)))

C4_Witness ==
    /\ pc = "done"
    /\ Decode(Original) = Original
    /\ Cardinality(MatchedFrom(Decode(Original), 1)) >= 2
    /\ disk = Encode(ScanReplace(Decode(Original)))
    /\ \A i \in Occurrences(Original) : disk # ReplaceOneAt(Original, i)

----------------------------------------------------------------------------
(* C5, C6, C9, C10: failures, the confirmation line and the handles *)

\* C5: when the path names no file, the only step of the script is the
\* failure of the read-open with a file-not-found error: the file is not
\* created, no file operation is logged (the write-open is never reached),
\* no handle is open and nothing is printed.
C5_MissingFileFailsAtReadOpen ==
    [][(~exists) =>
          /\ ~exists'
          /\ disk' = disk
          /\ pc' \in {"failed", "crashed"}
          /\ pc' = "failed" => err' = "FileNotFoundError"
          /\ log' = <<>>
          /\ handles' = {}
          /\ stdout' = <<>>]_vars

C5_Witness ==
    /\ ~exists
    /\ pc = "failed"
    /\ err = "FileNotFoundError"
    /\ log = <<>>
    /\ stdout = <<>>

\* C6: a run prints the confirmation line at most once; it is printed
\* exactly when the run has completed, after the write and the close of
\* the write handle; a failed run has printed nothing and carries the
\* error that ended it.
C6_ConfirmationOnlyAfterClose ==
    /\ Len(stdout) <= 1
    /\ stdout # <<>> <=> pc = "done"
    /\ pc = "done" =>
          /\ stdout = <<message>>
          /\ log = Canonical
          /\ handles = {}
          /\ err = "none"
    /\ pc = "failed" =>
          /\ stdout = <<>>
          /\ err \in {"FileNotFoundError", "PermissionError",
                       "UnicodeDecodeError", "OSError"}

C6_Witness ==
    /\ pc = "done"
    /\ stdout = <<message>>
    /\ log = Canonical
    /\ "w" \notin handles

\* C9: a successful run performs read-open, read, close, write-open,
\* write, close in this order; at most one handle is open at any time, the
\* write handle only after the read handle was closed; a handle is open
\* exactly between its open and its close; no run that has ended in
\* success or failure holds an open handle.
C9_HandleDiscipline ==
    /\ Cardinality(handles) <= 1
    /\ pc = "done" => log = Canonical
    /\ pc \in {"done", "failed"} => handles = {}
    /\ pc # "crashed" =>
          /\ "r" \in handles <=> (InLog("ropen") /\ ~InLog("rclose"))
          /\ "w" \in handles <=> (InLog("wopen") /\ ~InLog("wclose"))
    /\ InLog("wopen") => InLog("rclose")
    /\ \A i, j \in 1..Len(log) :
          (log[i] = log[j] /\ log[i] \in {"ropen", "wopen"}) => i = j

C9_Witness ==
    /\ pc = "failed"
    /\ err = "UnicodeDecodeError"
    /\ log = <<"ropen", "rclose">>
    /\ handles = {}

\* C10: a run that failed before its write-open (read-open denied, or the
\* bytes not valid UTF-8) leaves the file as it was; the write-open is
\* reached only after the whole file was read and decoded, so the file
\* differs from the original only in runs whose read succeeded.
C10_FailureBeforeWriteOpenKeepsFile ==
    /\ (pc = "failed" /\ ~InLog("wopen")) => disk = Original
    /\ InLog("wopen") =>
          /\ InLog("read")
          /\ Decodable(Original)
          /\ snap = Original
    /\ disk # Original => InLog("read")

C10_Witness ==
    /\ pc = "failed"
    /\ err = "UnicodeDecodeError"
    /\ ~InLog("wopen")
    /\ Occurrences(Original) # {}
    /\ disk = Original

----------------------------------------------------------------------------
(* C7, C8: interference and the non-atomic write *)

\* C7: whatever another process wrote between the script's read and its
\* write-open, a completed run leaves replace(text as read) in the file
\* and reports success: the final content is a function of the bytes read
\* alone.
C7_WriteClobbersLaterChange ==
    pc = "done" =>
        /\ disk = ScanReplace(Decode(snap))
        /\ stdout = <<message>>

C7_Witness ==
    /\ pc = "done"
    /\ ext # <<>>
    /\ snap = <<"X">>
    /\ ext[Len(ext)] = old_text
    /\ disk = <<"X">>
    /\ stdout = <<message>>

\* C8: the write-open truncates the file before anything is written, so
\* between the write-open and the close the file (and what a crash leaves
\* behind) is a prefix of the new content, possibly empty; before the
\* write-open the file still holds its original content.
C8_TruncateThenWrite ==
    /\ pc = "wr_open" => disk = <<>>
    /\ (InLog("wopen") /\ ~InLog("wclose")) => IsPrefix(disk, Encode(content))
    /\ ~InLog("wopen") => disk = Original

C8_Witness ==
    /\ pc = "crashed"
    /\ InLog("wopen")
    /\ ~InLog("wclose")
    /\ Occurrences(Original) # {}
    /\ disk = <<>>

=============================================================================
